---- MODULE Spec2Model ----
(***************************************************************************)
(* litrs: ByteStringLit::parse / parse_impl (src/src/bytestr/mod.rs) and   *)
(* BoolLit::parse (src/src/bool/mod.rs) as a state machine over one input. *)
(* Strings are sequences of bytes (0..255) holding valid UTF-8; offsets    *)
(* are 0-based as in the source.                                           *)
(***************************************************************************)
EXTENDS Integers, Sequences, FiniteSets, TLC

VARIABLES lit, input, pc, num_hashes, closing_quote_pos, i, end_last_escape,
          value, result

vars == <<lit, input, pc, num_hashes, closing_quote_pos, i, end_last_escape,
          value, result>>

(* ---------------- bytes named by the source ---------------- *)
Quote == 34
Hash == 35
Backslash == 92
CR == 13
LF == 10
LetterB == 98
LetterR == 114

(* ---------------- bounds of the explored inputs ---------------- *)
MaxAny == 3
MaxRaw == 6
MaxEsc == 5

(* ---------------- Option, Result ---------------- *)
None == <<>>
Some(x) == <<x>>
IsSome(o) == Len(o) = 1
Unwrap(o) == o[1]

Pending == [tag |-> "Pending", kind |-> "", pos |-> None,
            raw |-> None, value |-> None, num_hashes |-> None]
\* perr(pos, kind): pos is None, <<offset>> or <<start, end>> (half-open)
perr(pos, kind) == [tag |-> "Err", kind |-> kind, pos |-> pos,
                    raw |-> None, value |-> None, num_hashes |-> None]
\* a panic of the Rust runtime (index out of range, slice off a char boundary)
Panic(what) == [tag |-> "Panic", kind |-> what, pos |-> None,
                raw |-> None, value |-> None, num_hashes |-> None]
OkLit(r, v, n) == [tag |-> "Ok", kind |-> "", pos |-> None,
                   raw |-> r, value |-> v, num_hashes |-> n]

(* ---------------- str / [u8] primitives, 0-based ---------------- *)
At(s, k) == s[k + 1]
Bytes(s, a, b) == SubSeq(s, a + 1, b)
is_ascii(b) == b <= 127
\* str::is_char_boundary: 0 and len are boundaries, otherwise the byte at k
\* must not be a UTF-8 continuation byte (0x80..0xBF)
is_char_boundary(s, k) ==
    \/ k = 0
    \/ k = Len(s)
    \/ k < Len(s) /\ ~(At(s, k) >= 128 /\ At(s, k) <= 191)
\* &s[a..b] on a str succeeds iff a <= b <= len and both are char boundaries
StrSliceOk(s, a, b) ==
    a <= b /\ b <= Len(s) /\ is_char_boundary(s, a) /\ is_char_boundary(s, b)
starts_with(s, p) == Len(p) <= Len(s) /\ SubSeq(s, 1, Len(p)) = p
\* Iterator::position(|b| b != b'#') over the bytes of s
PositionNotHash(s) ==
    LET idx == {k \in 0 .. Len(s) - 1 : At(s, k) # Hash}
    IN IF idx = {} THEN None
       ELSE Some(CHOOSE k \in idx : \A m \in idx : k <= m)

RECURSIVE Flatten(_)
\* the bytes of a sequence of characters (each a byte sequence)
Flatten(cs) == IF cs = <<>> THEN <<>> ELSE Head(cs) \o Flatten(Tail(cs))

(* ---------------- escape::unescape::<u8> ---------------- *)
HexVal(b) ==
    IF b >= 48 /\ b <= 57 THEN b - 48
    ELSE IF b >= 97 /\ b <= 102 THEN b - 87
    ELSE IF b >= 65 /\ b <= 70 THEN b - 55
    ELSE -1
UnescOk(b, len) == [ok |-> TRUE, b |-> b, len |-> len, err |-> Pending]
UnescErr(e) == [ok |-> FALSE, b |-> 0, len |-> 0, err |-> e]
\* s starts with the backslash and ends right before the last input byte;
\* offset is the backslash's offset in the input. Byte context: no \u escape,
\* \xHH covers 0..255.
unescape(s, offset) ==
    IF Len(s) < 2 THEN UnescErr(perr(None, "UnterminatedString"))
    ELSE LET first == At(s, 1) IN
      CASE first = 110 -> UnescOk(LF, 2)              \* \n
        [] first = 116 -> UnescOk(9, 2)               \* \t
        [] first = LetterR -> UnescOk(CR, 2)          \* \r
        [] first = 48 -> UnescOk(0, 2)                \* \0
        [] first = Backslash -> UnescOk(Backslash, 2) \* \\
        [] first = 39 -> UnescOk(39, 2)               \* \'
        [] first = Quote -> UnescOk(Quote, 2)         \* \"
        [] first = 120 ->                             \* \xHH
             IF Len(s) < 4
             THEN UnescErr(perr(<<offset, offset + Len(s)>>, "UnterminatedEscape"))
             ELSE IF HexVal(At(s, 2)) < 0 \/ HexVal(At(s, 3)) < 0
             THEN UnescErr(perr(<<offset, offset + 4>>, "InvalidXEscape"))
             ELSE UnescOk(16 * HexVal(At(s, 2)) + HexVal(At(s, 3)), 4)
        [] OTHER -> UnescErr(perr(<<offset, offset + 2>>, "UnknownEscape"))

(* ---------------- BoolLit ---------------- *)
FalseStr == <<102, 97, 108, 115, 101>>
TrueStr == <<116, 114, 117, 101>>
OkBool(v) == [tag |-> "Ok", kind |-> v, pos |-> None,
              raw |-> None, value |-> None, num_hashes |-> None]
BoolLit_parse(s) ==
    IF s = FalseStr THEN OkBool("False")
    ELSE IF s = TrueStr THEN OkBool("True")
    ELSE perr(None, "InvalidLiteral")

(* ---------------- ByteStringLit accessors ---------------- *)
inner_range_drops_fence(self) ==
    IF ~IsSome(self.num_hashes) THEN <<2, Len(self.raw) - 1>>
    ELSE <<2 + Unwrap(self.num_hashes) + 1, Len(self.raw) - 1>>
\* the half-open byte range <<start, end>> of the interior
inner_range(self) ==
    IF ~IsSome(self.num_hashes) THEN <<2, Len(self.raw) - 1>>
    ELSE <<2 + Unwrap(self.num_hashes) + 1,
           Len(self.raw) - Unwrap(self.num_hashes) - 1>>
Value(self) ==
    IF IsSome(self.value) THEN Unwrap(self.value)
    ELSE Bytes(self.raw, inner_range(self)[1], inner_range(self)[2])
\* raw.cut(range) slices the str, which needs char boundaries
IntoValue(self) ==
    IF IsSome(self.value) THEN Unwrap(self.value)
    ELSE Bytes(self.raw, inner_range(self)[1], inner_range(self)[2])
is_raw_byte_string(self) == IsSome(self.num_hashes)

(* ---------------- pieces of parse_impl ---------------- *)
BPrefix == <<LetterB, Quote>>
BrPrefix == <<LetterB, LetterR>>
start_inner == 2 + num_hashes + 1
hashes == Bytes(input, 2, num_hashes + 2)
IsClosingQuote_any_quote(s, p, b, h) == b = Quote
\* line 84: the byte b at offset p closes the raw literal
IsClosingQuote(s, p, b, h) ==
    b = Quote /\ starts_with(Bytes(s, p + 1, Len(s)), h)
PushEscape_no_run(v, s, e, k, b) == v \o <<b>>
\* lines 113-114: the verbatim run since the last escape, then the escape's byte
PushEscape(v, s, e, k, b) == v \o Bytes(s, e, k) \o <<b>>
Unterminated_no_len(s) == At(s, Len(s) - 1) # Quote
\* line 127
Unterminated(s) == At(s, Len(s) - 1) # Quote \/ Len(s) = 2
FinishValue_always_some(v, s, e) == Some(v \o Bytes(s, e, Len(s) - 1))
\* lines 134-141
FinishValue(v, s, e) ==
    IF v = <<>> THEN None ELSE Some(v \o Bytes(s, e, Len(s) - 1))

(* ---------------- inputs ---------------- *)
\* characters (UTF-8 encoded); <<195, 169>> is the two-byte e-acute
AnyChars == {<<LetterB>>, <<LetterR>>, <<Quote>>, <<Hash>>, <<97>>, <<195, 169>>}
RawChars == {<<Hash>>, <<Quote>>, <<97>>, <<CR>>, <<LF>>, <<195, 169>>}
EscChars == {<<Quote>>, <<Backslash>>, <<LetterR>>, <<120>>, <<52>>,
             <<CR>>, <<LF>>, <<195, 169>>}

(* ---------------- the state machine ---------------- *)
\* the input is prefix followed by at most n characters of C
InputIs(prefix, C, n) ==
    \E k \in 0 .. n : \E cs \in [1 .. k -> C] : input = prefix \o Flatten(cs)
Init ==
    /\ lit \in {"ByteStringLit", "BoolLit"}
    /\ IF lit = "BoolLit"
       THEN \/ input \in {FalseStr, TrueStr}
            \/ InputIs(<<>>, AnyChars, MaxAny)
       ELSE \/ InputIs(<<>>, AnyChars, MaxAny)
            \/ InputIs(BrPrefix, RawChars, MaxRaw)
            \/ InputIs(BPrefix, EscChars, MaxEsc)
    /\ pc = "start"
    /\ num_hashes = 0
    /\ closing_quote_pos = None
    /\ i = 0
    /\ end_last_escape = 0
    /\ value = <<>>
    /\ result = Pending

Return(r) ==
    /\ result' = r
    /\ pc' = "done"

\* BoolLit::parse
BoolParse ==
    /\ pc = "start"
    /\ lit = "BoolLit"
    /\ Return(BoolLit_parse(input))
    /\ UNCHANGED <<lit, input, num_hashes, closing_quote_pos, i,
                   end_last_escape, value>>

\* ByteStringLit::parse and parse_impl up to the head of its scan loop
Parse ==
    /\ pc = "start"
    /\ lit = "ByteStringLit"
    /\ IF Len(input) = 0 THEN
         /\ Return(perr(None, "Empty"))
         /\ UNCHANGED <<num_hashes, closing_quote_pos, i, end_last_escape, value>>
       ELSE IF ~starts_with(input, BPrefix) /\ ~starts_with(input, BrPrefix) THEN
         /\ Return(perr(None, "InvalidByteStringLiteralStart"))
         /\ UNCHANGED <<num_hashes, closing_quote_pos, i, end_last_escape, value>>
       ELSE IF starts_with(input, BrPrefix) THEN
         LET n == PositionNotHash(Bytes(input, 2, Len(input))) IN
         IF ~IsSome(n) THEN
           /\ Return(perr(None, "InvalidLiteral"))
           /\ UNCHANGED <<num_hashes, closing_quote_pos, i, end_last_escape, value>>
         ELSE IF At(input, 2 + Unwrap(n)) # Quote THEN
           /\ Return(perr(None, "InvalidLiteral"))
           /\ UNCHANGED <<num_hashes, closing_quote_pos, i, end_last_escape, value>>
         ELSE
           /\ num_hashes' = Unwrap(n)
           /\ closing_quote_pos' = None
           /\ i' = 0
           /\ pc' = "raw_scan"
           /\ UNCHANGED <<end_last_escape, value, result>>
       ELSE
         /\ i' = 2
         /\ end_last_escape' = 2
         /\ value' = <<>>
         /\ pc' = "esc_scan"
         /\ UNCHANGED <<num_hashes, closing_quote_pos, result>>
    /\ UNCHANGED <<lit, input>>

\* one iteration of the raw scan (lines 83-92); i is the enumerate index
RawScanStep ==
    /\ pc = "raw_scan"
    /\ ~IsSome(closing_quote_pos)
    /\ i < Len(input) - start_inner
    /\ LET b == At(input, start_inner + i) IN
       IF b = Quote /\ ~StrSliceOk(input, start_inner + i + 1, Len(input)) THEN
         /\ Return(Panic("str slice"))
         /\ UNCHANGED <<closing_quote_pos, i>>
       ELSE IF IsClosingQuote(input, start_inner + i, b, hashes) THEN
         /\ closing_quote_pos' = Some(i + start_inner)
         /\ UNCHANGED <<i, pc, result>>
       ELSE IF ~is_ascii(b) THEN
         /\ Return(perr(<<i + start_inner>>, "NonAsciiInByteLiteral"))
         /\ UNCHANGED <<closing_quote_pos, i>>
       ELSE
         /\ i' = i + 1
         /\ UNCHANGED <<closing_quote_pos, pc, result>>
    /\ UNCHANGED <<lit, input, num_hashes, end_last_escape, value>>

\* after the raw scan (lines 93-104)
RawFinish ==
    /\ pc = "raw_scan"
    /\ ~(~IsSome(closing_quote_pos) /\ i < Len(input) - start_inner)
    /\ IF ~IsSome(closing_quote_pos) THEN
         Return(perr(None, "UnterminatedRawString"))
       ELSE IF Unwrap(closing_quote_pos) + num_hashes # Len(input) - 1 THEN
         Return(perr(<<Unwrap(closing_quote_pos) + num_hashes + 1, Len(input)>>,
                     "UnexpectedChar"))
       ELSE
         \* `num_hashes as u32` keeps the count: it is below the input's length
         Return(OkLit(input, None, Some(num_hashes)))
    /\ UNCHANGED <<lit, input, num_hashes, closing_quote_pos, i,
                   end_last_escape, value>>

\* one iteration of the escaped scan (lines 109-125)
EscScanStep ==
    /\ pc = "esc_scan"
    /\ i < Len(input) - 1
    /\ LET b == At(input, i) IN
       IF b = Backslash THEN
         IF ~StrSliceOk(input, i, Len(input) - 1) THEN
           /\ Return(Panic("str slice"))
           /\ UNCHANGED <<i, end_last_escape, value>>
         ELSE LET u == unescape(Bytes(input, i, Len(input) - 1), i) IN
           IF ~u.ok THEN
             /\ Return(u.err)
             /\ UNCHANGED <<i, end_last_escape, value>>
           ELSE
             /\ value' = PushEscape(value, input, end_last_escape, i, u.b)
             /\ i' = i + u.len
             /\ end_last_escape' = i + u.len
             /\ UNCHANGED <<pc, result>>
       ELSE IF b = CR /\ At(input, i + 1) # LF THEN
         /\ Return(perr(<<i>>, "IsolatedCr"))
         /\ UNCHANGED <<i, end_last_escape, value>>
       ELSE IF b = Quote THEN
         /\ Return(perr(<<i + 1, Len(input)>>, "UnexpectedChar"))
         /\ UNCHANGED <<i, end_last_escape, value>>
       ELSE IF ~is_ascii(b) THEN
         /\ Return(perr(<<i>>, "NonAsciiInByteLiteral"))
         /\ UNCHANGED <<i, end_last_escape, value>>
       ELSE
         /\ i' = i + 1
         /\ UNCHANGED <<end_last_escape, value, pc, result>>
    /\ UNCHANGED <<lit, input, num_hashes, closing_quote_pos>>

\* after the escaped scan (lines 127-146)
EscFinish ==
    /\ pc = "esc_scan"
    /\ ~(i < Len(input) - 1)
    /\ IF Unterminated(input) THEN
         Return(perr(None, "UnterminatedString"))
       ELSE
         Return(OkLit(input, FinishValue(value, input, end_last_escape), None))
    /\ UNCHANGED <<lit, input, num_hashes, closing_quote_pos, i,
                   end_last_escape, value>>

Next ==
    \/ BoolParse
    \/ Parse
    \/ RawScanStep
    \/ RawFinish
    \/ EscScanStep
    \/ EscFinish

Spec == Init /\ [][Next]_vars

(* ---------------- reading an input without running the parser ---------------- *)
RECURSIVE HashRun(_, _)
\* the number of consecutive `#` starting at offset p
HashRun(s, p) ==
    IF p < Len(s) /\ At(s, p) = Hash THEN 1 + HashRun(s, p + 1) ELSE 0
Fence(n) == [k \in 1 .. n |-> Hash]
IsByteStr == lit = "ByteStringLit"
IsEscaped == IsByteStr /\ starts_with(input, BPrefix)
\* br, n fence characters, opening quote
IsRaw ==
    /\ IsByteStr
    /\ starts_with(input, BrPrefix)
    /\ 2 + HashRun(input, 2) < Len(input)
    /\ At(input, 2 + HashRun(input, 2)) = Quote
Interior == Bytes(input, 2, Len(input) - 1)
RECURSIVE FirstStop(_, _)
\* Escaped literal: the offset of the first byte at or after p, before the last
\* byte, that is not a plain ASCII byte, a CR before LF, or the start of an
\* escape unescape accepts; an offset >= Len(s) - 1 if there is none.
FirstStop(s, p) ==
    IF p >= Len(s) - 1 THEN p
    ELSE IF At(s, p) = Backslash THEN
        LET u == unescape(Bytes(s, p, Len(s) - 1), p)
        IN IF u.ok THEN FirstStop(s, p + u.len) ELSE p
    ELSE IF At(s, p) = CR /\ At(s, p + 1) # LF THEN p
    ELSE IF At(s, p) = Quote \/ ~is_ascii(At(s, p)) THEN p
    ELSE FirstStop(s, p + 1)
RECURSIVE RawFirstStop(_, _, _)
\* Raw literal with fence n: the offset of the first byte at or after p that is
\* a quote followed by n fence characters, a byte >= 0x80, or a CR followed by
\* a byte other than LF; Len(s) if there is none.
RawFirstStop(s, p, n) ==
    IF p >= Len(s) THEN Len(s)
    ELSE IF At(s, p) = Quote /\ HashRun(s, p + 1) >= n THEN p
    ELSE IF ~is_ascii(At(s, p)) THEN p
    ELSE IF At(s, p) = CR /\ p + 1 < Len(s) /\ At(s, p + 1) # LF THEN p
    ELSE RawFirstStop(s, p + 1, n)
RECURSIVE RefDecode(_)
\* the interior read left to right: plain bytes copied, each escape replaced by
\* the byte unescape returns for it
RefDecode(s) ==
    IF s = <<>> THEN <<>>
    ELSE IF Head(s) = Backslash THEN
        LET u == unescape(s, 0)
        IN IF u.ok THEN <<u.b>> \o RefDecode(SubSeq(s, u.len + 1, Len(s)))
           ELSE <<>>
    ELSE <<Head(s)>> \o RefDecode(Tail(s))
Done == pc = "done"

(* ---------------- claims ---------------- *)

\* C1: ByteStringLit::parse is total: every input ends in Ok or Err, never in
\* a fault of an index or of a str slice off a character boundary.
C1_ParseIsTotal ==
    (Done /\ IsByteStr) => result.tag \in {"Ok", "Err"}

\* C2 as stated: the quote the raw scan takes as the close is followed by
\* exactly n fence characters.
C2_CloseHasExactlyN ==
    (IsRaw /\ IsSome(closing_quote_pos)) =>
        HashRun(input, Unwrap(closing_quote_pos) + 1) = num_hashes

\* C2 amended: the raw scan stops at the first interior byte that is a quote
\* followed by at least n fence characters (the close) or a byte >= 0x80; a
\* quote followed by fewer than n fence characters is passed over, one followed
\* by more than n is the close.
C2_CloseHasAtLeastN ==
    (Done /\ IsRaw) =>
        LET n == HashRun(input, 2)
            stops == {p \in n + 3 .. Len(input) - 1 :
                        \/ At(input, p) = Quote /\ HashRun(input, p + 1) >= n
                        \/ ~is_ascii(At(input, p))}
        IN IF stops = {} THEN result = perr(None, "UnterminatedRawString")
           ELSE LET q == CHOOSE p \in stops : \A m \in stops : p <= m
                IN IF At(input, q) = Quote THEN closing_quote_pos = Some(q)
                   ELSE result = perr(<<q>>, "NonAsciiInByteLiteral")
C2_Witness ==
    /\ Done /\ IsRaw /\ IsSome(closing_quote_pos)
    /\ num_hashes >= 1
    /\ \E p \in start_inner .. Unwrap(closing_quote_pos) - 1 : At(input, p) = Quote

\* C3: a zero-length input makes ByteStringLit::parse and BoolLit::parse fail
\* with Empty and no position.
C3_EmptyInputIsEmpty ==
    (Done /\ Len(input) = 0) => result = perr(None, "Empty")

\* C4: a successfully parsed raw literal has num_hashes = Some(n), n the fence
\* length after the marker, no decoded buffer, an interior range inside the
\* input, and marker + fence + quote + value() + quote + fence is the input.
C4_RawRoundTrip ==
    (Done /\ IsByteStr /\ starts_with(input, BrPrefix) /\ result.tag = "Ok") =>
        /\ result.num_hashes = Some(HashRun(input, 2))
        /\ is_raw_byte_string(result)
        /\ result.value = None
        /\ 0 <= inner_range(result)[1]
        /\ inner_range(result)[1] <= inner_range(result)[2]
        /\ inner_range(result)[2] <= Len(input)
        /\ BrPrefix \o Fence(Unwrap(result.num_hashes)) \o <<Quote>>
             \o Value(result)
             \o <<Quote>> \o Fence(Unwrap(result.num_hashes)) = input
        /\ IntoValue(result) = Value(result)
C4_Witness ==
    /\ Done /\ IsRaw /\ result.tag = "Ok"
    /\ result.num_hashes = Some(1)
    /\ Len(Value(result)) >= 1

\* C5: a successfully parsed escaped literal has no decoded buffer iff its
\* interior holds no backslash, and then value() is the interior exactly.
C5_NoneIffNoEscape ==
    (Done /\ IsEscaped /\ result.tag = "Ok") =>
        /\ result.num_hashes = None
        /\ ~IsSome(result.value) <=>
             (\A k \in 1 .. Len(Interior) : Interior[k] # Backslash)
        /\ ~IsSome(result.value) =>
             (Value(result) = Interior /\ IntoValue(result) = Interior)
C5_Witness ==
    /\ Done /\ IsEscaped /\ result.tag = "Ok"
    /\ ~IsSome(result.value)
    /\ Len(Interior) >= 2

\* C6: in a raw or escaped literal, the first stop of the scan being a CR not
\* followed by LF makes parse fail with IsolatedCr at that CR's offset (stated
\* for the runs that return, leaving the faults of C1 aside).
C6_IsolatedCrRejected ==
    /\ (Done /\ IsEscaped /\ result.tag # "Panic") =>
         LET p == FirstStop(input, 2)
         IN (p < Len(input) - 1 /\ At(input, p) = CR) =>
               result = perr(<<p>>, "IsolatedCr")
    /\ (Done /\ IsRaw /\ result.tag # "Panic") =>
         LET p == RawFirstStop(input, HashRun(input, 2) + 3, HashRun(input, 2))
         IN (p < Len(input) /\ At(input, p) = CR) =>
               result = perr(<<p>>, "IsolatedCr")

\* C7: bytes after the close (the first unescaped quote, or the closing quote
\* and its fence) make parse fail with UnexpectedChar over the non-empty range
\* from right after the close to the input's length.
C7_TrailingBytesRejected ==
    /\ (Done /\ IsEscaped) =>
         LET p == FirstStop(input, 2)
         IN (p < Len(input) - 1 /\ At(input, p) = Quote) =>
               /\ result = perr(<<p + 1, Len(input)>>, "UnexpectedChar")
               /\ p + 1 < Len(input)
    /\ (Done /\ IsRaw) =>
         LET n == HashRun(input, 2)
             q == RawFirstStop(input, n + 3, n)
         IN (q < Len(input) /\ At(input, q) = Quote /\ q + n + 1 < Len(input)) =>
               result = perr(<<q + n + 1, Len(input)>>, "UnexpectedChar")

\* C8: in both paths the first stop of the scan being a byte >= 0x80 makes
\* parse fail with NonAsciiInByteLiteral at its offset, and no successfully
\* parsed literal has such a byte in its interior.
C8_NonAsciiRejected ==
    /\ (Done /\ IsEscaped) =>
         LET p == FirstStop(input, 2)
         IN (p < Len(input) - 1 /\ ~is_ascii(At(input, p))) =>
               result = perr(<<p>>, "NonAsciiInByteLiteral")
    /\ (Done /\ IsRaw) =>
         LET p == RawFirstStop(input, HashRun(input, 2) + 3, HashRun(input, 2))
         IN (p < Len(input) /\ ~is_ascii(At(input, p))) =>
               result = perr(<<p>>, "NonAsciiInByteLiteral")
    /\ (Done /\ IsByteStr /\ result.tag = "Ok") =>
         \A k \in inner_range(result)[1] .. inner_range(result)[2] - 1 :
             is_ascii(At(input, k))

\* C9: an escaped literal whose scan meets no stop before the last byte, and
\* whose last byte is not a quote (or that is only the opening b"), fails with
\* UnterminatedString and no position.
C9_Unterminated ==
    (Done /\ IsEscaped /\ FirstStop(input, 2) >= Len(input) - 1
       /\ (Len(input) = 2 \/ At(input, Len(input) - 1) # Quote)) =>
        result = perr(None, "UnterminatedString")
C9_Witness ==
    /\ Done /\ IsEscaped /\ FirstStop(input, 2) >= Len(input) - 1
    /\ Len(input) >= 4
    /\ At(input, Len(input) - 1) = Backslash
    /\ result = perr(None, "UnterminatedString")

\* C10: a successfully parsed escaped literal with at least one escape decodes
\* to its interior with each escape replaced by unescape's byte and every other
\* byte kept in place; value() and into_value() both return it.
C10_DecodedInOrder ==
    (Done /\ IsEscaped /\ result.tag = "Ok" /\ IsSome(result.value)) =>
        /\ Value(result) = RefDecode(Interior)
        /\ IntoValue(result) = RefDecode(Interior)
C10_Witness ==
    /\ Done /\ IsEscaped /\ result.tag = "Ok" /\ IsSome(result.value)
    /\ At(input, 2) # Backslash
    /\ end_last_escape < Len(input) - 1
    /\ Len(Value(result)) < Len(Interior)

====
